---- MODULE Spec2Model ----
(***************************************************************************)
(* Model of the invoice enrichment pipeline of everclear-mcp:              *)
(*   src/src/utils/chainData.ts  ChainDataService (registry cache,         *)
(*                               identifier lookups)                        *)
(*   src/src/index.ts            EverclearMCPServer.getInvoicesFormatted   *)
(*                                                                         *)
(* Strings that the code takes apart (amounts) are sequences of one-       *)
(* character strings.  Integers wider than TLC's 32 bits (BigInt values,   *)
(* the 53-bit significand of a Number) are little-endian sequences of      *)
(* limbs of four decimal digits ("Big" values, <<>> is zero).              *)
(***************************************************************************)
EXTENDS Integers, Sequences, FiniteSets, TLC

(***************************************************************************)
(* Arbitrary-precision naturals (BigInt): little-endian limbs below        *)
(* LimbBase, no zero limb at the top.                                      *)
(***************************************************************************)
LimbDigits == 2 + 2

LimbBase == 10 * 10 * 10 * 10

BigTrim(bt) ==
  LET nz == {i \in 1..Len(bt) : bt[i] # 0}
  IN  IF nz = {} THEN <<>>
      ELSE SubSeq(bt, 1, CHOOSE i \in nz : \A j \in nz : j <= i)

RECURSIVE MulCarry(_, _, _)
MulCarry(mx, mk, mc) ==
  IF mx = <<>>
  THEN (IF mc = 0 THEN <<>>
        ELSE <<mc % LimbBase>> \o MulCarry(<<>>, mk, mc \div LimbBase))
  ELSE <<(mx[1] * mk + mc) % LimbBase>>
       \o MulCarry(Tail(mx), mk, (mx[1] * mk + mc) \div LimbBase)

\* bx * bk, for 0 <= bk <= 2^16
BigMulSmall(bx, bk) == BigTrim(MulCarry(bx, bk, 0))

\* Long division by a small divisor, from the top limb down: <<quotient
\* limbs (little-endian), remainder>>.
RECURSIVE DivRec(_, _, _, _, _)
DivRec(dx, dk, di, dr, dq) ==
  IF di = 0 THEN <<dq, dr>>
  ELSE DivRec(dx, dk, di - 1, (dr * LimbBase + dx[di]) % dk,
              <<(dr * LimbBase + dx[di]) \div dk>> \o dq)

\* floor(vx / vk) and vx mod vk, for 0 < vk <= 2^16
BigDivSmall(vx, vk) ==
  LET qr == DivRec(vx, vk, Len(vx), 0, <<>>)
  IN  [q |-> BigTrim(qr[1]), r |-> qr[2]]

BigLess(lx, ly) ==
  IF Len(lx) # Len(ly) THEN Len(lx) < Len(ly)
  ELSE LET df == {i \in 1..Len(lx) : lx[i] # ly[i]}
       IN  df # {} /\ LET top == CHOOSE i \in df : \A j \in df : j <= i
                      IN  lx[top] < ly[top]

BigAddOne(ax) ==
  LET low == {i \in 1..Len(ax) : ax[i] # LimbBase - 1}
  IN  IF low = {} THEN [i \in 1..(Len(ax) + 1) |-> IF i = Len(ax) + 1 THEN 1 ELSE 0]
      ELSE LET at == CHOOSE i \in low : \A j \in low : i <= j
           IN  [i \in 1..Len(ax) |->
                  IF i < at THEN 0 ELSE IF i = at THEN ax[i] + 1 ELSE ax[i]]

RECURSIVE PowInt(_, _)
PowInt(pb, pn) == IF pn = 0 THEN 1 ELSE pb * PowInt(pb, pn - 1)

\* Powers of two are applied in chunks of at most ChunkBits bits.
ChunkBits == 4 * 4

\* px * 2^pn
RECURSIVE BigMulPow2(_, _)
BigMulPow2(px, pn) ==
  IF pn <= ChunkBits THEN BigMulSmall(px, PowInt(2, pn))
  ELSE BigMulPow2(BigMulSmall(px, PowInt(2, ChunkBits)), pn - ChunkBits)

BigPow2(tn) == BigMulPow2(<<1>>, tn)

\* sx * 10^sd
BigShift10(sx, sd) ==
  IF sx = <<>> THEN <<>>
  ELSE [i \in 1..(sd \div LimbDigits) |-> 0]
       \o BigMulSmall(sx, PowInt(10, sd % LimbDigits))

BigPow10(td) == BigShift10(<<1>>, td)

\* floor(ex / 10^ed) and whether the division left a remainder
BigDrop10(ex, ed) ==
  LET limbs == ed \div LimbDigits
      rest  == IF limbs >= Len(ex) THEN <<>> ELSE SubSeq(ex, limbs + 1, Len(ex))
      dv    == BigDivSmall(rest, PowInt(10, ed % LimbDigits))
  IN  [q |-> dv.q,
       inexact |-> dv.r # 0 \/ \E i \in 1..Len(ex) : i <= limbs /\ ex[i] # 0]

(***************************************************************************)
(* IEEE-754 binary64 (the JavaScript Number).  A finite non-negative       *)
(* Number is [m |-> Big, e |-> Int], the value m * 2^e with m <= 2^53.     *)
(***************************************************************************)
SigBits == 53

\* cn * 2^s for the least multiple s of ChunkBits that makes it >= clim
RECURSIVE ScaleUp(_, _, _)
ScaleUp(cn, cs, clim) ==
  IF ~BigLess(cn, clim) THEN [n |-> cn, s |-> cs]
  ELSE ScaleUp(BigMulSmall(cn, PowInt(2, ChunkBits)), cs + ChunkBits, clim)

\* Round to nearest, ties to even: h is the halved value with the bit
\* shifted out last, sticky tells whether any lower bit was set.
RoundEven(h, he, sticky) ==
  LET odd == h.q # <<>> /\ h.q[1] % 2 = 1
      up  == h.r = 1 /\ (sticky \/ odd)
  IN  [m |-> IF up THEN BigAddOne(h.q) ELSE h.q, e |-> he + 1]

\* 2^SigBits
TwoToSig == BigPow2(SigBits)

\* Shift val (>= 2^SigBits) right, rc bits at a time and then in halved
\* steps, while what is left has more than SigBits bits; then round the
\* last bit away.  st is 1 when a bit shifted out so far was set.
RECURSIVE RoundSig(_, _, _, _)
RoundSig(val, rex, st, rc) ==
  LET part == BigDivSmall(val, PowInt(2, rc))
  IN  IF ~BigLess(part.q, TwoToSig)
      THEN RoundSig(part.q, rex + rc, IF part.r # 0 THEN 1 ELSE st, rc)
      ELSE IF rc = 1 THEN RoundEven(part, rex, st = 1)
      ELSE RoundSig(val, rex, st, rc \div 2)

\* The Number nearest to big * 2^e2 / 10^qd (big a Big, qd >= 0).
RoundQuot(big, e2, qd) ==
  IF big = <<>> THEN [m |-> <<>>, e |-> 0]
  ELSE LET sc == ScaleUp(big, 0, BigShift10(BigPow2(SigBits + 1), qd))
           dv == BigDrop10(sc.n, qd)
       IN  RoundSig(dv.q, e2 - sc.s, IF dv.inexact THEN 1 ELSE 0, ChunkBits)

\* Number(bigint), src/src/index.ts:526
NumberOfBig(nb) == RoundQuot(nb, 0, 0)

\* Number / Number where the divisor is the Number 10^nd (exact for nd <= 22).
NumberDiv(dbl, nd) == RoundQuot(dbl.m, dbl.e, nd)

\* floor(rx / 2^rn + 1/2): the integer nearest to rx / 2^rn, the larger on
\* a tie (rn >= 1).
RECURSIVE BigShrRound(_, _)
BigShrRound(rx, rn) ==
  IF rn = 1
  THEN LET half == BigDivSmall(rx, 2)
       IN  IF half.r = 1 THEN BigAddOne(half.q) ELSE half.q
  ELSE IF rn - 1 > ChunkBits
  THEN BigShrRound(BigDivSmall(rx, PowInt(2, ChunkBits)).q, rn - ChunkBits)
  ELSE BigShrRound(BigDivSmall(rx, PowInt(2, rn - 1)).q, 1)

(***************************************************************************)
(* Strings: sequences of one-character strings.  A falsy string field      *)
(* (undefined or "") is the empty sequence: the code reads such fields     *)
(* only through `field || fallback`.                                       *)
(***************************************************************************)
DigitChars == <<"0", "1", "2", "3", "4", "5", "6", "7", "8", "9">>

IsDigitChar(c) == \E i \in 1..Len(DigitChars) : DigitChars[i] = c

CharVal(cv) == (CHOOSE i \in 1..Len(DigitChars) : DigitChars[i] = cv) - 1

\* the decimal numeral of a literal, one character per digit
Str(ds) == [i \in 1..Len(ds) |-> DigitChars[ds[i] + 1]]

\* the value of the decimal digit at place pl (0 is the units) of numeral ns
DigitAt(ns, pl) == IF pl < Len(ns) THEN CharVal(ns[Len(ns) - pl]) ELSE 0

\* BigInt(string): decimal digits only ("" is 0n); anything else is a
\* SyntaxError.  Signs, whitespace and radix prefixes are not in the inputs.
ParseBigInt(ps) ==
  IF \A i \in 1..Len(ps) : IsDigitChar(ps[i])
  THEN [ok |-> TRUE,
        v  |-> BigTrim([i \in 1..((Len(ps) + LimbDigits - 1) \div LimbDigits) |->
                 DigitAt(ps, 4 * i - 4) + 10 * DigitAt(ps, 4 * i - 3)
                 + 100 * DigitAt(ps, 4 * i - 2) + 1000 * DigitAt(ps, 4 * i - 1)])]
  ELSE [ok |-> FALSE, v |-> <<>>]

\* BigInt(10 ** decimals): a RangeError when 10 ** decimals is no integer
DivisorOk(decimals) == decimals >= 0

\* the decimal digit at place pl of a Big
BigDigitAt(gx, pl) ==
  IF pl \div LimbDigits + 1 > Len(gx) THEN 0
  ELSE (gx[pl \div LimbDigits + 1] \div PowInt(10, pl % LimbDigits)) % 10

\* the number of decimal digits of a Big (0 for zero)
BigDigits(gx) ==
  IF gx = <<>> THEN 0
  ELSE LET places == {pl \in 0..(LimbDigits * Len(gx) - 1) : BigDigitAt(gx, pl) # 0}
       IN  1 + CHOOSE pl \in places : \A o \in places : o <= pl

\* the decimal numeral of a Big, at least `width` digits
BigToStr(gx, width) ==
  LET n == IF BigDigits(gx) < width THEN width ELSE BigDigits(gx)
  IN  [i \in 1..n |-> DigitChars[BigDigitAt(gx, n - i) + 1]]

FracDigits == 6

\* Number.prototype.toFixed(6): the integer nearest to num * 10^6 (the larger
\* on a tie) written with a point before its last 6 digits; exponent notation
\* for num >= 10^21.
ToFixed(num) ==
  LET whole  == IF num.e >= 0 THEN BigMulPow2(num.m, num.e) ELSE <<>>
      scaled == IF num.e >= 0 THEN BigShift10(whole, FracDigits)
                ELSE BigShrRound(BigShift10(num.m, FracDigits), 0 - num.e)
      txt    == BigToStr(scaled, FracDigits + 1)
  IN  IF num.e >= 0 /\ ~BigLess(whole, BigPow10(21)) THEN <<"e+">>
      ELSE SubSeq(txt, 1, Len(txt) - FracDigits) \o <<".">>
           \o SubSeq(txt, Len(txt) - FracDigits + 1, Len(txt))

ZeroAmount == Str(<<0>>) \o <<".">> \o Str(<<0, 0, 0, 0, 0, 0>>)

\* src/src/index.ts:521-530
ConvertAmount(amount, decimals) ==
  LET parsed == ParseBigInt(IF amount = <<>> THEN Str(<<0>>) ELSE amount)
  IN  IF parsed.ok /\ DivisorOk(decimals)
      THEN ToFixed(NumberDiv(NumberOfBig(parsed.v), decimals))
      ELSE (IF amount = <<>> THEN ZeroAmount ELSE amount)

(***************************************************************************)
(* The registry document (everclear.json) and the two cached shapes.       *)
(*                                                                         *)
(* A document is [ver, hasHub, hasChains, hub, chains]: hub is the         *)
(* sequence of the hub's asset records and chains the sequence of          *)
(* [id, network, assets], both in Object.values / Object.entries order.    *)
(* hasHub / hasChains are FALSE for a JSON document without that member.   *)
(* An asset is [key, tickerHash, symbol, decimals].  ver names the         *)
(* published registry version the document is a copy of (0: none).         *)
(***************************************************************************)
Asset(k, th, sym, dec) ==
  [key |-> k, tickerHash |-> th, symbol |-> sym, decimals |-> dec]

\* `this.rawData = null`, src/src/utils/chainData.ts:26
NullDoc ==
  [ver |-> 0, isNull |-> TRUE, hasHub |-> FALSE, hasChains |-> FALSE,
   hub |-> <<>>, chains |-> <<>>]

\* `{ hub: { assets: {} }, chains: {} }`, src/src/utils/chainData.ts:289
EmptyDoc ==
  [ver |-> 0, isNull |-> FALSE, hasHub |-> TRUE, hasChains |-> TRUE,
   hub |-> <<>>, chains |-> <<>>]

\* the hardcoded enumeration, src/src/utils/chainData.ts:64-90
chainNames ==
  [id \in {"1", "10", "56", "137", "250", "42161", "43114", "8453", "59144",
           "534352", "48900", "81457", "167000", "33139", "34443", "130",
           "324", "2020", "1399811149", "80094", "100", "5000", "146",
           "57073", "728126428"} |->
     CASE id = "1" -> "Ethereum"      [] id = "10" -> "Optimism"
       [] id = "56" -> "BSC"          [] id = "137" -> "Polygon"
       [] id = "250" -> "Fantom"      [] id = "42161" -> "Arbitrum"
       [] id = "43114" -> "Avalanche" [] id = "8453" -> "Base"
       [] id = "59144" -> "Linea"     [] id = "534352" -> "Scroll"
       [] id = "48900" -> "Zircuit"   [] id = "81457" -> "Blast"
       [] id = "167000" -> "Taiko"    [] id = "33139" -> "ApeChain"
       [] id = "34443" -> "Mode"      [] id = "130" -> "UniChain"
       [] id = "324" -> "zkSync"      [] id = "2020" -> "Ronin"
       [] id = "1399811149" -> "Solana" [] id = "80094" -> "Berachain"
       [] id = "100" -> "Gnosis"      [] id = "5000" -> "Mantle"
       [] id = "146" -> "Sonic"       [] id = "57073" -> "Ink"
       [] id = "728126428" -> "Tron"]

\* the constructor's `{ chains: {}, tokens: {} }`, chainData.ts:30-36;
\* src is the version of the document the snapshot was built from
EmptyData == [chains |-> <<>>, tokens |-> <<>>, src |-> 0]

RECURSIVE Flatten(_)
Flatten(seqs) ==
  IF seqs = <<>> THEN <<>> ELSE Head(seqs) \o Flatten(Tail(seqs))

\* `{ ...hub.assets }` then Object.assign per chain (chainData.ts:98-102):
\* the values of the merged map, a later asset with the same key replacing
\* the earlier one in the earlier one's place
MergedAssets(doc) ==
  LET all  == doc.hub \o Flatten([i \in 1..Len(doc.chains) |-> doc.chains[i].assets])
      last(i) == CHOOSE j \in i..Len(all) :
                   /\ all[j].key = all[i].key
                   /\ \A l \in (j + 1)..Len(all) : all[l].key # all[i].key
      firsts == {i \in 1..Len(all) : \A j \in 1..(i - 1) : all[j].key # all[i].key}
      RECURSIVE Walk(_)
      Walk(i) == IF i > Len(all) THEN <<>>
                 ELSE (IF i \in firsts THEN <<all[last(i)]>> ELSE <<>>) \o Walk(i + 1)
  IN  Walk(1)

\* Does the transform of chainData.ts:57-109 throw on this document?
TransformThrows(doc) == doc.isNull \/ ~doc.hasHub \/ ~doc.hasChains

\* transformedData as it stands after the chains loop of chainData.ts:93-95,
\* before the tokens loop has run
TransformChainsOnly(doc) == [chains |-> chainNames, tokens |-> <<>>, src |-> doc.ver]

\* The transformed snapshot, chainData.ts:57-109: every hardcoded chain name,
\* and for each tickerHash the symbol of the last merged asset that has it.
Transform(doc) ==
  LET merged == MergedAssets(doc)
      named  == {i \in 1..Len(merged) :
                   merged[i].tickerHash # "" /\ merged[i].symbol # ""}
      hashes == {merged[i].tickerHash : i \in named}
  IN  [chains |-> chainNames,
       tokens |-> [th \in hashes |->
                     merged[CHOOSE i \in named :
                              /\ merged[i].tickerHash = th
                              /\ \A j \in named :
                                   merged[j].tickerHash = th => j <= i].symbol],
       src |-> doc.ver]

\* convertChainIdToName on a snapshot, chainData.ts:129-130
ChainNameIn(snap, chainId) ==
  IF chainId \in DOMAIN snap.chains THEN <<snap.chains[chainId]>>
  ELSE <<"Unknown Chain (", chainId, ")">>

\* convertTickerhashToName on a snapshot, chainData.ts:140-141
TokenNameIn(snap, tickerhash) ==
  IF tickerhash \in DOMAIN snap.tokens THEN <<snap.tokens[tickerhash]>>
  ELSE <<"Unknown Token (", tickerhash, ")">>

(***************************************************************************)
(* getAssetInfo, src/src/utils/chainData.ts:207-262                        *)
(***************************************************************************)
\* `return null`
NoAsset == [found |-> FALSE, symbol |-> "", decimals |-> 0]

\* getAssetInfo (and getTokenDecimals) dereference hub.assets and enumerate
\* chains outside any try block: a TypeError on a document without them.
LookupThrows(doc) == doc.isNull \/ ~doc.hasHub \/ ~doc.hasChains

\* the matches of one asset list, in order (chainData.ts:215-223, 228-237)
RECURSIVE MatchesIn(_, _, _)
MatchesIn(assets, tickerhash, evm) ==
  IF assets = <<>> THEN <<>>
  ELSE (IF Head(assets).tickerHash = tickerhash
        THEN <<[symbol |-> Head(assets).symbol,
                decimals |-> Head(assets).decimals, isEvm |-> evm]>>
        ELSE <<>>)
       \o MatchesIn(Tail(assets), tickerhash, evm)

\* foundAssets: the hub first (isEvm: true), then every chain in order
FoundAssets(doc, tickerhash) ==
  MatchesIn(doc.hub, tickerhash, TRUE)
  \o Flatten([i \in 1..Len(doc.chains) |->
       MatchesIn(doc.chains[i].assets, tickerhash, doc.chains[i].network = "evm")])

\* Array.prototype.filter
RECURSIVE FilterEvm(_)
FilterEvm(found) ==
  IF found = <<>> THEN <<>>
  ELSE (IF Head(found).isEvm THEN <<Head(found)>> ELSE <<>>) \o FilterEvm(Tail(found))

\* Object.entries(decimalsCount): the keys are canonical array indices, so
\* they are enumerated in ascending numeric order whatever the insertion order
RECURSIVE EntriesAsc(_, _)
EntriesAsc(keys, used) ==
  IF keys = {} THEN <<>>
  ELSE LET k == CHOOSE x \in keys : \A y \in keys : x <= y
       IN  <<[key |-> k,
              count |-> Cardinality({i \in 1..Len(used) : used[i].decimals = k})]>>
           \o EntriesAsc(keys \ {k}, used)

\* Array.prototype.sort(([,a],[,b]) => b - a): stable, descending by count
RECURSIVE SortByCountDesc(_)
SortByCountDesc(entries) ==
  IF entries = <<>> THEN <<>>
  ELSE LET i == CHOOSE x \in 1..Len(entries) :
                  /\ \A y \in 1..Len(entries) : entries[y].count <= entries[x].count
                  /\ \A y \in 1..(x - 1) : entries[y].count < entries[x].count
       IN  <<entries[i]>>
           \o SortByCountDesc(SubSeq(entries, 1, i - 1)
                              \o SubSeq(entries, i + 1, Len(entries)))

\* assetsToUse without the EVM preference
AllFoundAssets(found) == found

\* chainData.ts:245-247
AssetsToUse(found) == IF FilterEvm(found) # <<>> THEN FilterEvm(found) ELSE found

\* chainData.ts:241-261 on a well-shaped document
GetAssetInfo(doc, tickerhash) ==
  LET found == FoundAssets(doc, tickerhash)
      used  == AssetsToUse(found)
      byCount == SortByCountDesc(
                   EntriesAsc({used[i].decimals : i \in 1..Len(used)}, used))
  IN  IF found = <<>> THEN NoAsset
      ELSE [found |-> TRUE, symbol |-> used[1].symbol, decimals |-> byCount[1].key]

(***************************************************************************)
(* State.                                                                  *)
(***************************************************************************)
VARIABLES
  now,        \* Date.now(), in ms
  ticks,      \* how often the clock has advanced
  reg,        \* the registry version published upstream
  data,       \* ChainDataService.data, chainData.ts:25
  rawData,    \* ChainDataService.rawData, chainData.ts:26
  lastFetch,  \* ChainDataService.lastFetch, chainData.ts:27
  dataAt,     \* the `now` of the fetch that built data (0: never fetched)
  rawAt,      \* the `now` of the fetch that stored rawData (0: never fetched)
  response,   \* rawData: what the upstream GET returned, index.ts:438
  invoices,   \* the normalized records of the batch, index.ts:442-458
  tasks,      \* one enrichment per record, index.ts:478-563
  output,     \* what getInvoicesFormatted returns or throws
  probe       \* input and result of a function applied on its own

vars == <<now, ticks, reg, data, rawData, lastFetch, dataAt, rawAt,
          response, invoices, tasks, output, probe>>

cache == <<data, rawData, lastFetch, dataAt, rawAt>>

\* chainData.ts:28
CACHE_DURATION == 5 * 60 * 1000

(***************************************************************************)
(* Bounds and inputs of the pipeline model.                                *)
(***************************************************************************)
MaxBatch == 2

MaxTicks == 1

\* the clock advances by a millisecond or by the cache lifetime
TickSteps == {1, CACHE_DURATION}

\* Two published versions of the registry: version 2 delists T1 and lists T2.
Registry(ver) ==
  IF ver = 1
  THEN [ver |-> 1, isNull |-> FALSE, hasHub |-> TRUE, hasChains |-> TRUE,
        hub |-> <<Asset("h1", "T1", "USDC", 6)>>,
        chains |-> <<[id |-> "1", network |-> "evm",
                      assets |-> <<Asset("a1", "T1", "USDC", 6)>>]>>]
  ELSE [ver |-> ver, isNull |-> FALSE, hasHub |-> TRUE, hasChains |-> TRUE,
        hub |-> <<Asset("h2", "T2", "WETH", 18)>>,
        chains |-> <<[id |-> "1", network |-> "evm",
                      assets |-> <<Asset("a2", "T2", "WETH", 18)>>]>>]

LastVersion == 2

\* a JSON document without `hub` and `chains`, such as `{}`
ShapelessDoc(ver) ==
  [ver |-> ver, isNull |-> FALSE, hasHub |-> FALSE, hasChains |-> FALSE,
   hub |-> <<>>, chains |-> <<>>]

\* What one GET of the registry can come to: the document, a document of
\* another shape, or a failure (fetch rejects, a non-2xx status, or
\* response.json() rejects: chainData.ts:50-55, 276-281).
FetchFailures == {"network error", "non-2xx status", "invalid JSON"}

FetchOutcomes == {"document", "shapeless"} \cup FetchFailures

(***************************************************************************)
(* Raw invoice records.  A record is                                       *)
(*   [nul, createdAt, origin, dshape, dests, destination, asset,           *)
(*    ticker_hash, amount, intent_id]                                      *)
(* nul: the array element is null; createdAt: its time in ms, 0 when       *)
(* absent; dshape: "none" (no `destinations`), "array", or "string" (a     *)
(* truthy value that is no array); a string field is "" when absent.       *)
(***************************************************************************)
BlankRecord ==
  [nul |-> FALSE, createdAt |-> 0, origin |-> "", dshape |-> "none",
   dests |-> <<>>, destination |-> "", asset |-> "", ticker_hash |-> "",
   amount |-> <<>>, intent_id |-> ""]

NullRecord == [BlankRecord EXCEPT !.nul = TRUE]

\* An amount that is no base-unit integer: BigInt("1.5") raises
MalformedAmount == <<"1", ".", "5">>

RecordSet ==
  { NullRecord,
    BlankRecord,
    [BlankRecord EXCEPT !.amount = MalformedAmount, !.intent_id = "i0"],
    [BlankRecord EXCEPT !.origin = "1", !.asset = "T1",
                        !.amount = Str(<<1, 0, 0, 0, 0, 0, 0>>),
                        !.intent_id = "i1"],
    [BlankRecord EXCEPT !.dshape = "string", !.dests = <<"10">>],
    [BlankRecord EXCEPT !.dshape = "array", !.dests = <<"10", "999">>,
                        !.intent_id = "i2"],
    [BlankRecord EXCEPT !.ticker_hash = "T1"] }

RECURSIVE SeqsUpTo(_, _)
SeqsUpTo(S, n) ==
  IF n = 0 THEN {<<>>}
  ELSE SeqsUpTo(S, n - 1)
       \cup {Append(q, x) : q \in {r \in SeqsUpTo(S, n - 1) : Len(r) = n - 1}, x \in S}

Batches == SeqsUpTo(RecordSet, MaxBatch) \ {<<>>}

\* `invoice.asset || invoice.ticker_hash`, index.ts:507
TickerHash(rec) == IF rec.asset # "" THEN rec.asset ELSE rec.ticker_hash

(***************************************************************************)
(* The upstream response, index.ts:438-474.  A response is                 *)
(*   [shape, items, invoices, data, results, self]                         *)
(* shape: "null", "primitive" (a string, number or boolean), "array" or    *)
(* "object"; items: the elements of an array; invoices, data, results:     *)
(* the properties of an object of those names, each [isArray, items];      *)
(* self: an object read as one record.                                     *)
(***************************************************************************)
NoArray == [isArray |-> FALSE, items |-> <<>>]

ArrayOf(items) == [isArray |-> TRUE, items |-> items]

NullResponse ==
  [shape |-> "null", items |-> <<>>, invoices |-> NoArray, data |-> NoArray,
   results |-> NoArray, self |-> BlankRecord]

PrimitiveResponse == [NullResponse EXCEPT !.shape = "primitive"]

BareArray(items) == [NullResponse EXCEPT !.shape = "array", !.items = items]

ObjectOf(inv, dat, res, rec) ==
  [NullResponse EXCEPT !.shape = "object", !.invoices = inv, !.data = dat,
                       !.results = res, !.self = rec]

\* A normalization that would try `data` before `invoices`
NormalizeDataFirst(raw) ==
  IF raw.shape = "array" THEN [found |-> TRUE, invoices |-> raw.items]
  ELSE IF raw.shape = "object"
  THEN [found |-> TRUE,
        invoices |-> IF raw.data.isArray THEN raw.data.items
                     ELSE IF raw.invoices.isArray THEN raw.invoices.items
                     ELSE IF raw.results.isArray THEN raw.results.items
                     ELSE <<raw.self>>]
  ELSE [found |-> FALSE, invoices |-> <<>>]

\* index.ts:441-474.  found is FALSE on the early return.
Normalize(raw) ==
  IF raw.shape = "array" THEN [found |-> TRUE, invoices |-> raw.items]
  ELSE IF raw.shape = "object"
  THEN [found |-> TRUE,
        invoices |-> IF raw.invoices.isArray THEN raw.invoices.items
                     ELSE IF raw.data.isArray THEN raw.data.items
                     ELSE IF raw.results.isArray THEN raw.results.items
                     ELSE <<raw.self>>]
  ELSE [found |-> FALSE, invoices |-> <<>>]

(***************************************************************************)
(* Lookups in flight.  A frame is one call of a public lookup by a task:   *)
(*   fn   "chain" (convertChainIdToName), "token" (convertTickerhashToName)*)
(*        or "asset" (getAssetInfo)                                        *)
(*   t0   the `now` its fetchChainData / fetchEverclearData captured       *)
(*   st   "fetching" (the GET is out), "done" (returned), "threw"          *)
(*   name / info   what it returned                                        *)
(*   attempted     it issued a GET                                         *)
(*   due           the snapshot it was about to read was missing or at     *)
(*                 least CACHE_DURATION old when it started                *)
(*   src           the registry version its answer was read from           *)
(*   failed        its GET did not come back with the registry document    *)
(***************************************************************************)
Fresh(t) == t - lastFetch < CACHE_DURATION

\* fetchChainData up to its first await, chainData.ts:42-50
NameFrame(fn, arg, t) ==
  LET hit == Fresh(t)   \* `this.data &&` holds: data is never null
  IN  [fn |-> fn, arg |-> arg, t0 |-> t,
       st |-> IF hit THEN "done" ELSE "fetching",
       name |-> IF ~hit THEN <<>>
                ELSE IF fn = "chain" THEN ChainNameIn(data, arg)
                ELSE TokenNameIn(data, arg),
       info |-> NoAsset,
       attempted |-> ~hit,
       due |-> dataAt = 0 \/ t - dataAt >= CACHE_DURATION,
       src |-> IF hit THEN data.src ELSE 0,
       failed |-> FALSE]

\* getAssetInfo up to the first await of fetchEverclearData,
\* chainData.ts:208, 268-276
AssetFrame(arg, t) ==
  LET hit == ~rawData.isNull /\ Fresh(t)
  IN  [fn |-> "asset", arg |-> arg, t0 |-> t,
       st |-> IF ~hit THEN "fetching"
              ELSE IF LookupThrows(rawData) THEN "threw" ELSE "done",
       name |-> <<>>,
       info |-> IF hit /\ ~LookupThrows(rawData)
                THEN GetAssetInfo(rawData, arg) ELSE NoAsset,
       attempted |-> ~hit,
       due |-> rawAt = 0 \/ t - rawAt >= CACHE_DURATION,
       src |-> IF hit THEN rawData.ver ELSE 0,
       failed |-> FALSE]

(***************************************************************************)
(* Per-record enrichment, index.ts:478-563.  A task is the async callback  *)
(* of one record:                                                         *)
(*   pc      "start", a lookup stage it is awaiting ("origin", "dests",    *)
(*           "destination", "asset", "tokenName"), "fulfilled", "rejected" *)
(*   frames  the lookups of the stage it awaits                            *)
(*   out     the enriched record once fulfilled                            *)
(*   raised  a lookup raised into the callback                             *)
(*   absent  getAssetInfo returned null                                    *)
(*   sawNames / sawAssets  registry versions its name / asset answers      *)
(*           were read from                                                *)
(***************************************************************************)
NoOut ==
  [origin |-> <<>>, destination |-> <<>>, destinations |-> <<>>,
   asset |-> <<>>, amount |-> <<>>, open_time_seconds |-> 0,
   amount_raw |-> <<>>, processing_error |-> FALSE,
   intent_id |-> "", ticker_hash |-> ""]

DefaultDecimals == 18   \* index.ts:509

NewTask ==
  [pc |-> "start", frames |-> <<>>, openTime |-> 0,
   originChainName |-> <<"Unknown Chain">>,
   destinationChainName |-> <<"Unknown Chain">>, destNames |-> <<>>,
   assetName |-> <<"Unknown Token">>, decimals |-> DefaultDecimals,
   raised |-> FALSE, absent |-> FALSE, sawNames |-> {}, sawAssets |-> {},
   out |-> NoOut]

LookupStages == {"origin", "dests", "destination", "asset", "tokenName"}

OrUnknown(field) == IF field = "" THEN "unknown" ELSE field

RECURSIVE JoinWith(_, _)
JoinWith(parts, sep) ==
  IF parts = <<>> THEN <<>>
  ELSE IF Len(parts) = 1 THEN parts[1]
  ELSE parts[1] \o <<sep>> \o JoinWith(Tail(parts), sep)

\* `invoice.destinations ? invoice.destinations.join(',') : invoice.destination || 'unknown'`
DestinationIds(rec) ==
  IF rec.dshape = "array" THEN JoinWith([i \in 1..Len(rec.dests) |-> <<rec.dests[i]>>], ",")
  ELSE <<OrUnknown(rec.destination)>>

\* The amount field as it stands, absent when the record has none
AmountVerbatim(rec) == rec.amount

\* `invoice.amount || '0'`, index.ts:542, 559
AmountRaw(rec) == IF rec.amount = <<>> THEN Str(<<0>>) ELSE rec.amount

\* An object built from the literal's own keys alone
SpreadNothing(rec) == [intent_id |-> "", ticker_hash |-> ""]

\* `...invoice`, index.ts:533, 548: the fields of the record that the new
\* object keeps because no later key of the literal replaces them
Spread(rec) == [intent_id |-> rec.intent_id, ticker_hash |-> rec.ticker_hash]

\* The catch block, index.ts:544-561.  Its own dereferences of the record
\* are outside any try: they raise again on a null record and on a
\* `destinations` that has no `join`.
CatchBlock(task, rec) ==
  IF rec.nul \/ rec.dshape = "string"
  THEN [task EXCEPT !.pc = "rejected", !.frames = <<>>]
  ELSE [task EXCEPT
         !.pc = "fulfilled", !.frames = <<>>,
         !.out = [origin |-> <<"Unknown Chain (", OrUnknown(rec.origin), ")">>,
                  destination |-> <<"Unknown Chain (">> \o DestinationIds(rec) \o <<")">>,
                  destinations |-> [i \in 1..Len(rec.dests) |->
                                      <<"Unknown Chain (", rec.dests[i], ")">>],
                  asset |-> <<"Unknown Token (", OrUnknown(TickerHash(rec)), ")">>,
                  amount |-> IF rec.amount = <<>> THEN ZeroAmount ELSE rec.amount,
                  open_time_seconds |-> 0,
                  amount_raw |-> AmountRaw(rec),
                  processing_error |-> TRUE,
                  intent_id |-> Spread(rec).intent_id,
                  ticker_hash |-> Spread(rec).ticker_hash]]

\* Amount conversion and assembly, index.ts:521-543
Assemble(task, rec) ==
  IF rec.dshape = "string" THEN CatchBlock(task, rec)   \* `.join` is no function
  ELSE [task EXCEPT
         !.pc = "fulfilled", !.frames = <<>>,
         !.out = [origin |-> task.originChainName \o <<" (", OrUnknown(rec.origin), ")">>,
                  destination |-> task.destinationChainName \o <<" (">>
                                    \o DestinationIds(rec) \o <<")">>,
                  destinations |-> [i \in 1..Len(rec.dests) |->
                                      task.destNames[i] \o <<" (", rec.dests[i], ")">>],
                  asset |-> task.assetName \o <<" (", OrUnknown(TickerHash(rec)), ")">>,
                  amount |-> ConvertAmount(rec.amount, task.decimals),
                  open_time_seconds |-> task.openTime,
                  amount_raw |-> AmountRaw(rec),
                  processing_error |-> FALSE,
                  intent_id |-> Spread(rec).intent_id,
                  ticker_hash |-> Spread(rec).ticker_hash]]

\* The stage that follows `pc` in the callback, "assemble" when none does
StageAfter(task, rec, pc) ==
  LET afterDest == IF TickerHash(rec) # "" THEN "asset" ELSE "assemble"
      afterOrigin == IF rec.dshape = "array" THEN "dests"
                     ELSE IF rec.destination # "" THEN "destination"
                     ELSE afterDest
  IN  CASE pc = "start" -> IF rec.origin # "" THEN "origin" ELSE afterOrigin
        [] pc = "origin" -> afterOrigin
        [] pc \in {"dests", "destination"} -> afterDest
        [] pc = "asset" -> IF task.frames[1].info.found THEN "assemble" ELSE "tokenName"
        [] OTHER -> "assemble"

\* The lookups a stage issues at clock reading t
StageFrames(rec, stage, t) ==
  CASE stage = "origin" -> <<NameFrame("chain", rec.origin, t)>>
    [] stage = "dests" -> [i \in 1..Len(rec.dests) |-> NameFrame("chain", rec.dests[i], t)]
    [] stage = "destination" -> <<NameFrame("chain", rec.destination, t)>>
    [] stage = "asset" -> <<AssetFrame(TickerHash(rec), t)>>
    [] OTHER -> <<NameFrame("token", TickerHash(rec), t)>>

\* Run the callback from the end of stage `pc` to its next await or its end
Proceed(task, rec, pc, t) ==
  LET stage == StageAfter(task, rec, pc)
  IN  IF stage = "assemble" THEN Assemble(task, rec)
      ELSE [task EXCEPT !.pc = stage, !.frames = StageFrames(rec, stage, t)]

\* What the callback takes from the lookups of the stage it awaited
Absorb(task) ==
  LET fs == task.frames
      srcs == {fs[i].src : i \in 1..Len(fs)}
  IN  CASE task.pc = "origin" ->
             [task EXCEPT !.originChainName = fs[1].name,
                          !.sawNames = @ \cup srcs]
        [] task.pc = "dests" ->
             [task EXCEPT !.destNames = [i \in 1..Len(fs) |-> fs[i].name],
                          !.destinationChainName =
                             JoinWith([i \in 1..Len(fs) |-> fs[i].name], ", "),
                          !.sawNames = @ \cup srcs]
        [] task.pc = "destination" ->
             [task EXCEPT !.destinationChainName = fs[1].name,
                          !.sawNames = @ \cup srcs]
        [] task.pc = "asset" ->
             IF fs[1].info.found
             THEN [task EXCEPT !.assetName = <<fs[1].info.symbol>>,
                               !.decimals = fs[1].info.decimals,
                               !.sawAssets = @ \cup srcs]
             ELSE [task EXCEPT !.absent = TRUE, !.sawAssets = @ \cup srcs]
        [] OTHER ->
             [task EXCEPT !.assetName = fs[1].name,
                          !.sawNames = @ \cup srcs]

(***************************************************************************)
(* The get_invoices_formatted call.                                        *)
(***************************************************************************)
\* st: "awaiting" the upstream response, "pending" while records are
\* enriched, "no_data" (the annotated empty result of index.ts:461-473),
\* "returned" or "thrown"
NoOutput == [st |-> "pending", formatted |-> <<>>, csvRows |-> <<>>, simplified |-> <<>>]

Idle == [kind |-> "none"]

\* Any clock reading at least CACHE_DURATION past the epoch behaves alike
\* against lastFetch = 0.
StartTime == CACHE_DURATION

\* The responses of the upstream GET: every batch as a bare array, the
\* empty array, null, a primitive, one record as a bare object and one
\* batch under the key `data`.
Responses ==
  {BareArray(b) : b \in Batches \cup {<<>>}}
  \cup {NullResponse, PrimitiveResponse,
        ObjectOf(NoArray, NoArray, NoArray, [BlankRecord EXCEPT !.intent_id = "i0"]),
        ObjectOf(NoArray, ArrayOf(<<BlankRecord>>), NoArray, BlankRecord)}

Init ==
  /\ now = StartTime
  /\ ticks = 0
  /\ reg = 1
  /\ data = EmptyData
  /\ rawData = NullDoc
  /\ lastFetch = 0
  /\ dataAt = 0
  /\ rawAt = 0
  /\ response \in Responses
  /\ invoices = <<>>
  /\ tasks = <<>>
  /\ output = [NoOutput EXCEPT !.st = "awaiting"]
  /\ probe = Idle

\* `await this.makeRequest(...)` returns and the response is normalized,
\* index.ts:438-474
Receive ==
  /\ output.st = "awaiting"
  /\ LET norm == Normalize(response)
     IN  IF norm.found
         THEN /\ invoices' = norm.invoices
              /\ tasks' = [i \in 1..Len(norm.invoices) |-> NewTask]
              /\ output' = NoOutput
         ELSE /\ output' = [NoOutput EXCEPT !.st = "no_data"]
              /\ UNCHANGED <<invoices, tasks>>
  /\ UNCHANGED <<now, ticks, reg, cache, response, probe>>

Begun == output.st # "awaiting" /\ \A u \in 1..Len(tasks) : tasks[u].pc # "start"

\* `invoices.map(async (invoice) => {...})` runs each callback, in order, up
\* to its first await (index.ts:478-487).  A record without createdAt reads
\* the clock twice.
Begin(t) ==
  /\ tasks[t].pc = "start"
  /\ \A u \in 1..(t - 1) : tasks[u].pc # "start"
  /\ LET rec == invoices[t]
     IN  IF rec.nul
         THEN /\ tasks' = [tasks EXCEPT ![t] = CatchBlock(@, rec)]
              /\ UNCHANGED <<now, ticks>>
         ELSE \E d \in {0, 1} :
                /\ d = 1 => (rec.createdAt = 0 /\ ticks < MaxTicks)
                /\ now' = now + d
                /\ ticks' = ticks + d
                /\ tasks' = [tasks EXCEPT ![t] =
                     Proceed([@ EXCEPT !.openTime =
                                (now - (IF rec.createdAt = 0 THEN now + d
                                        ELSE rec.createdAt)) \div 1000],
                             rec, "start", now + d)]
  /\ UNCHANGED <<reg, cache, response, invoices, output, probe>>

\* A lookup that would put its GET out again after a failure
AfterGetRetrying(outcome) == IF outcome \in FetchFailures THEN "fetching" ELSE "done"

\* Where a lookup stands once its GET is back: the try block returns the
\* new snapshot and the catch block returns the cached one
\* (chainData.ts:114, 118, 285, 289); neither calls fetch again.
AfterGet(outcome) == "done"

\* The registry GET of a lookup completes (chainData.ts:50-119 for the name
\* lookups, 207-262 and 275-290 for getAssetInfo).
FetchDone(t, i, outcome) ==
  /\ Begun
  /\ tasks[t].pc \in LookupStages
  /\ i \in 1..Len(tasks[t].frames)
  /\ tasks[t].frames[i].st = "fetching"
  /\ LET f == tasks[t].frames[i]
         parsed == outcome \notin FetchFailures
         doc == IF outcome = "document" THEN Registry(reg) ELSE ShapelessDoc(reg)
     IN  IF f.fn = "asset"
         THEN LET returned == IF parsed THEN doc
                              ELSE IF ~rawData.isNull THEN rawData ELSE EmptyDoc
              IN  /\ rawData' = IF parsed THEN doc ELSE rawData
                  /\ lastFetch' = IF parsed THEN f.t0 ELSE lastFetch
                  /\ rawAt' = IF parsed THEN f.t0 ELSE rawAt
                  /\ UNCHANGED <<data, dataAt>>
                  /\ tasks' = [tasks EXCEPT ![t].frames[i] =
                       IF LookupThrows(returned)
                       THEN [f EXCEPT !.st = "threw", !.failed = outcome # "document"]
                       ELSE [f EXCEPT !.st = AfterGet(outcome),
                                      !.info = GetAssetInfo(returned, f.arg),
                                      !.src = returned.ver,
                                      !.failed = outcome # "document"]]
         ELSE LET stored == parsed /\ ~TransformThrows(doc)
                  snap == IF stored THEN Transform(doc) ELSE data
              IN  /\ data' = snap
                  /\ lastFetch' = IF stored THEN f.t0 ELSE lastFetch
                  /\ dataAt' = IF stored THEN f.t0 ELSE dataAt
                  /\ UNCHANGED <<rawData, rawAt>>
                  /\ tasks' = [tasks EXCEPT ![t].frames[i] =
                       [f EXCEPT !.st = AfterGet(outcome),
                                 !.name = IF f.fn = "chain" THEN ChainNameIn(snap, f.arg)
                                          ELSE TokenNameIn(snap, f.arg),
                                 !.src = snap.src,
                                 !.failed = outcome # "document"]]
  /\ UNCHANGED <<now, ticks, reg, response, invoices, output, probe>>

\* The callback resumes when every lookup of the stage it awaits has
\* settled, and runs to its next await or to its end.
Resume(t) ==
  /\ Begun
  /\ tasks[t].pc \in LookupStages
  /\ \A i \in 1..Len(tasks[t].frames) : tasks[t].frames[i].st # "fetching"
  /\ tasks' = [tasks EXCEPT ![t] =
       IF \E i \in 1..Len(@.frames) : @.frames[i].st = "threw"
       THEN CatchBlock([@ EXCEPT !.raised = TRUE], invoices[t])
       ELSE Proceed(Absorb(@), invoices[t], @.pc, now)]
  /\ UNCHANGED <<now, ticks, reg, cache, response, invoices, output, probe>>

\* One CSV row, index.ts:567-576 (owner and timestamp columns left out)
CsvRow(o) ==
  <<IF o.intent_id = "" THEN "N/A" ELSE o.intent_id,
    o.amount, o.origin, o.destination, o.asset>>

\* One simplified entry, index.ts:581-592
Simplified(o) ==
  [intent_id |-> o.intent_id,
   amount |-> o.amount, origin |-> o.origin, destinations |-> o.destinations,
   destination |-> o.destination, asset |-> o.asset]

\* The fulfilment values taken last callback first
ResultsReversed(ts) == [i \in 1..Len(ts) |-> ts[Len(ts) + 1 - i].out]

\* The array `Promise.all` fulfils with: the callbacks' values at the
\* positions of their records, whenever each of them settled (index.ts:477)
Results(ts) == [i \in 1..Len(ts) |-> ts[i].out]

\* `await Promise.all(...)` settles (index.ts:477, 564-607): it rejects as
\* soon as one callback has rejected, and the handler then throws;
\* otherwise it waits for all and the three outputs are built in order.
Finish ==
  /\ Begun
  /\ output.st = "pending"
  /\ \/ /\ \E t \in 1..Len(tasks) : tasks[t].pc = "rejected"
        /\ output' = [NoOutput EXCEPT !.st = "thrown"]
     \/ /\ \A t \in 1..Len(tasks) : tasks[t].pc = "fulfilled"
        /\ LET formattedInvoices == Results(tasks)
           IN  output' = [st |-> "returned",
                          formatted |-> formattedInvoices,
                          csvRows |-> [i \in 1..Len(formattedInvoices) |->
                                         CsvRow(formattedInvoices[i])],
                          simplified |-> [i \in 1..Len(formattedInvoices) |->
                                            Simplified(formattedInvoices[i])]]
  /\ UNCHANGED <<now, ticks, reg, cache, response, invoices, tasks, probe>>

Waiting == \E t \in 1..Len(tasks) : tasks[t].pc \in LookupStages

\* Time passes while callbacks wait.
Tick(d) ==
  /\ Begun
  /\ Waiting
  /\ ticks < MaxTicks
  /\ now' = now + d
  /\ ticks' = ticks + 1
  /\ UNCHANGED <<reg, cache, response, invoices, tasks, output, probe>>

\* The registry repository publishes a new revision of everclear.json.
Publish ==
  /\ Begun
  /\ Waiting
  /\ reg < LastVersion
  /\ reg' = reg + 1
  /\ UNCHANGED <<now, ticks, cache, response, invoices, tasks, output, probe>>

Next ==
  \/ Receive
  \/ \E t \in 1..Len(tasks) : Begin(t)
  \/ \E t \in 1..Len(tasks), i \in 1..MaxBatch, outcome \in FetchOutcomes : FetchDone(t, i, outcome)
  \/ \E t \in 1..Len(tasks) : Resume(t)
  \/ Finish
  \/ \E d \in TickSteps : Tick(d)
  \/ Publish

Spec == Init /\ [][Next]_vars

(***************************************************************************)
(* Properties of the batch enrichment and of the registry cache.           *)
(***************************************************************************)
Tasks == 1..Len(tasks)

FramesOf(t) == 1..Len(tasks[t].frames)

\* The enrichment of record t throws inside its try block.
EnrichmentThrows(t) ==
  invoices[t].nul \/ invoices[t].dshape = "string" \/ tasks[t].raised

\* C1: a batch of n records always yields n enriched records, n CSV rows
\* and n simplified entries; a record whose enrichment throws is still
\* fulfilled, carrying processing_error, and the call never fails.
C1_EveryRecordAppears ==
  /\ output.st # "thrown"
  /\ \A t \in Tasks : tasks[t].pc # "rejected"
  /\ \A t \in Tasks : (tasks[t].pc = "fulfilled" /\ EnrichmentThrows(t))
                        => tasks[t].out.processing_error
  /\ output.st = "returned"
       => /\ Len(output.formatted) = Len(invoices)
          /\ Len(output.csvRows) = Len(invoices)
          /\ Len(output.simplified) = Len(invoices)

\* C2: no lookup of ChainDataService raises to its caller, whatever the
\* registry fetch returned.
C2_LookupsNeverRaise ==
  \A t \in Tasks :
    /\ ~tasks[t].raised
    /\ \A i \in FramesOf(t) : tasks[t].frames[i].st # "threw"

\* C3: in every cache state convertChainIdToName answers an id of the
\* hardcoded enumeration with its mapped name and any other id with
\* "Unknown Chain (<id>)".
C3_EnumeratedNamesAlways ==
  \A t \in Tasks : \A i \in FramesOf(t) :
    LET f == tasks[t].frames[i]
    IN  (f.fn = "chain" /\ f.st = "done")
          => f.name = IF f.arg \in DOMAIN chainNames THEN <<chainNames[f.arg]>>
                      ELSE <<"Unknown Chain (", f.arg, ")">>

\* C4: the fetch timestamp of the cache never decreases (the weakest reading
\* of "each replacement records a strictly greater timestamp"), under every
\* interleaving of concurrent refreshes.
C4_FetchTimeNeverDecreases == [][lastFetch' >= lastFetch]_vars

\* C5: within the enrichment of one record, the name data and the asset
\* data that were read from fetched registry documents were read from the
\* same document.
C5_NoMixedDocuments ==
  \A t \in Tasks :
    \A a \in tasks[t].sawNames \ {0} : \A b \in tasks[t].sawAssets \ {0} : a = b

\* C6: a lookup issues a registry GET exactly when the snapshot it is about
\* to read was never fetched or was fetched at least CACHE_DURATION before.
C6_RefreshIffDue ==
  \A t \in Tasks : \A i \in FramesOf(t) :
    tasks[t].frames[i].attempted <=> tasks[t].frames[i].due

\* C8: when getAssetInfo returns null for a record's fingerprint, the
\* symbol shown is "Unknown Token (<fingerprint>)" and decimals stay 18.
C8_AbsentShowsUnknown ==
  \A t \in Tasks :
    (tasks[t].pc = "fulfilled" /\ tasks[t].absent)
      => /\ tasks[t].assetName = <<"Unknown Token (", TickerHash(invoices[t]), ")">>
         /\ tasks[t].decimals = DefaultDecimals
         /\ tasks[t].out.asset = <<"Unknown Token (", TickerHash(invoices[t]), ")",
                                   " (", TickerHash(invoices[t]), ")">>

(***************************************************************************)
(* getAssetInfo on its own: a registry document drawn from a bounded set,  *)
(* then one lookup of the fingerprint "T1" in it.                          *)
(***************************************************************************)
MaxAssets == 3

HubPlace == "hub"

\* chain ids in Object.entries order (integer keys ascending)
ChainPlaces == <<"1", "10", "728126428">>

NetworkOf(place) == IF place = "728126428" THEN "tvm" ELSE "evm"

AssetVariants ==
  { [tickerHash |-> "T1", symbol |-> "USDC", decimals |-> 6],
    [tickerHash |-> "T1", symbol |-> "USDC.e", decimals |-> 18],
    [tickerHash |-> "T2", symbol |-> "WETH", decimals |-> 18] }

EntrySet ==
  {[place |-> p, asset |-> a] :
     p \in {HubPlace} \cup {ChainPlaces[i] : i \in 1..Len(ChainPlaces)},
     a \in AssetVariants}

KeyOf(i) == <<"k1", "k2", "k3", "k4", "k5">>[i]

\* the asset map of one place: the entries put there, in insertion order
AssetsAt(entries, place) ==
  LET keyed == [i \in 1..Len(entries) |->
                  [place |-> entries[i].place,
                   asset |-> Asset(KeyOf(i), entries[i].asset.tickerHash,
                                   entries[i].asset.symbol, entries[i].asset.decimals)]]
      Here(e) == e.place = place
      mine == SelectSeq(keyed, Here)
  IN  [i \in 1..Len(mine) |-> mine[i].asset]

DocOf(entries) ==
  [ver |-> 1, isNull |-> FALSE, hasHub |-> TRUE, hasChains |-> TRUE,
   hub |-> AssetsAt(entries, HubPlace),
   chains |-> [c \in 1..Len(ChainPlaces) |->
                 [id |-> ChainPlaces[c], network |-> NetworkOf(ChainPlaces[c]),
                  assets |-> AssetsAt(entries, ChainPlaces[c])]]]

InitAsset ==
  /\ now = StartTime
  /\ ticks = 0
  /\ reg = 1
  /\ data = EmptyData
  /\ rawData = NullDoc
  /\ lastFetch = 0
  /\ dataAt = 0
  /\ rawAt = 0
  /\ response = NullResponse
  /\ invoices = <<>>
  /\ tasks = <<>>
  /\ output = NoOutput
  /\ probe \in {[kind |-> "asset", entries |-> es, tickerhash |-> "T1",
                 done |-> FALSE, result |-> NoAsset] : es \in SeqsUpTo(EntrySet, MaxAssets)}

LookupAsset ==
  /\ probe.kind = "asset"
  /\ ~probe.done
  /\ probe' = [probe EXCEPT !.done = TRUE,
                            !.result = GetAssetInfo(DocOf(probe.entries), probe.tickerhash)]
  /\ UNCHANGED <<now, ticks, reg, cache, response, invoices, tasks, output>>

SpecAsset == InitAsset /\ [][LookupAsset]_vars

\* The matching entries, the chosen partition and the traversal order,
\* stated on the entries the document was built from.
PlaceRank(place) ==
  IF place = HubPlace THEN 0
  ELSE CHOOSE c \in 1..Len(ChainPlaces) : ChainPlaces[c] = place

Matching == {i \in 1..Len(probe.entries) : probe.entries[i].asset.tickerHash = probe.tickerhash}

Chosen ==
  LET evm == {i \in Matching : NetworkOf(probe.entries[i].place) = "evm"}
  IN  IF evm # {} THEN evm ELSE Matching

Before(i, j) ==
  \/ PlaceRank(probe.entries[i].place) < PlaceRank(probe.entries[j].place)
  \/ /\ PlaceRank(probe.entries[i].place) = PlaceRank(probe.entries[j].place)
     /\ i < j

Occurrences(dec) == Cardinality({i \in Chosen : probe.entries[i].asset.decimals = dec})

\* C7: with at least one match, getAssetInfo answers from the EVM matches
\* when there are any and from all matches otherwise: the symbol of the
\* first match of that set and a decimals value no other value of the set
\* occurs more often than.
C7_EvmMajorityDecimals ==
  (probe.kind = "asset" /\ probe.done /\ Matching # {})
    => /\ probe.result.found
       /\ \E i \in Chosen :
            /\ \A j \in Chosen \ {i} : Before(i, j)
            /\ probe.result.symbol = probe.entries[i].asset.symbol
       /\ Occurrences(probe.result.decimals) > 0
       /\ \A i \in Chosen :
            Occurrences(probe.entries[i].asset.decimals)
              <= Occurrences(probe.result.decimals)

\* the spec's example: two EVM matches with decimals 6, one non-EVM match
\* with decimals 18, answered with decimals 6
C7_Witness ==
  /\ probe.kind = "asset" /\ probe.done
  /\ Cardinality(Matching) = 3
  /\ Cardinality({i \in Matching : NetworkOf(probe.entries[i].place) = "evm"
                                   /\ probe.entries[i].asset.decimals = 6}) = 2
  /\ Cardinality({i \in Matching : NetworkOf(probe.entries[i].place) # "evm"
                                   /\ probe.entries[i].asset.decimals = 18}) = 1
  /\ probe.result.decimals = 6

(***************************************************************************)
(* The amount conversion on its own: an amount string and a decimals       *)
(* value drawn from bounded sets, then one conversion.                     *)
(***************************************************************************)
MaxDigits == 3

AmountDigits == {"0", "1", "5", "9"}

LargeAmounts ==
  { Str(<<1, 0, 0, 0, 0, 0, 0>>),
    Str(<<1, 9, 0, 0, 0, 0, 0, 0, 0, 0, 0, 0, 0>>),
    Str(<<9, 0, 0, 7, 1, 9, 9, 2, 5, 4, 7, 4, 0, 9, 9, 3>>),
    Str(<<9, 9, 9, 9, 9, 9, 9, 9, 9, 9, 9, 9, 9, 9, 9, 9, 9, 9, 9, 9>>),
    Str(<<1, 2, 3, 4, 5, 6, 7, 8, 9, 0, 1, 2, 3, 4, 5, 6, 7, 8, 9, 0,
          1, 2, 3, 4, 5, 6, 7, 8, 9, 0>>) }

AmountSet == (SeqsUpTo(AmountDigits, MaxDigits) \ {<<>>}) \cup LargeAmounts

DecimalsSet == {0, 6, 7, 18}

InitAmount ==
  /\ now = StartTime
  /\ ticks = 0
  /\ reg = 1
  /\ data = EmptyData
  /\ rawData = NullDoc
  /\ lastFetch = 0
  /\ dataAt = 0
  /\ rawAt = 0
  /\ response = NullResponse
  /\ invoices = <<>>
  /\ tasks = <<>>
  /\ output = NoOutput
  /\ probe \in {[kind |-> "amount", amount |-> a, decimals |-> d,
                 done |-> FALSE, result |-> <<>>] : a \in AmountSet, d \in DecimalsSet}

Convert ==
  /\ probe.kind = "amount"
  /\ ~probe.done
  /\ probe' = [probe EXCEPT !.done = TRUE,
                            !.result = ConvertAmount(probe.amount, probe.decimals)]
  /\ UNCHANGED <<now, ticks, reg, cache, response, invoices, tasks, output>>

SpecAmount == InitAmount /\ [][Convert]_vars

\* the integer the amount string denotes
AmountValue == ParseBigInt(probe.amount).v

\* floor(a * 10^6 / 10^d) written with a point before its last 6 digits
TruncatedAmount ==
  LET micro == IF probe.decimals <= FracDigits
               THEN BigShift10(AmountValue, FracDigits - probe.decimals)
               ELSE BigDrop10(AmountValue, probe.decimals - FracDigits).q
      txt == BigToStr(micro, FracDigits + 1)
  IN  SubSeq(txt, 1, Len(txt) - FracDigits) \o <<".">>
      \o SubSeq(txt, Len(txt) - FracDigits + 1, Len(txt))

\* the characters of a result before its decimal point
IntegerPart(txt) ==
  LET points == {i \in 1..Len(txt) : txt[i] = "."}
  IN  IF points = {} THEN txt
      ELSE SubSeq(txt, 1, (CHOOSE i \in points : \A j \in points : i <= j) - 1)

\* C9: the enriched amount is a / 10^d rounded toward zero at the 6th
\* fractional digit, written with exactly 6 fractional digits.
C9_AmountRoundedTowardZero ==
  (probe.kind = "amount" /\ probe.done) => probe.result = TruncatedAmount

\* C10: for an amount of 2^53 or more, the integer part of the enriched
\* amount is floor(a / 10^d), digit for digit.
C10_IntegerPartExact ==
  (probe.kind = "amount" /\ probe.done /\ ~BigLess(AmountValue, BigPow2(SigBits)))
    => IntegerPart(probe.result) = BigToStr(BigDrop10(AmountValue, probe.decimals).q, 1)


(***************************************************************************)
(* Normalization of the upstream response on its own.                      *)
(***************************************************************************)
MaxItems == 2

ItemSet == {BlankRecord, [BlankRecord EXCEPT !.amount = MalformedAmount, !.intent_id = "i0"]}

ItemArrays == SeqsUpTo(ItemSet, MaxItems)

Members == {NoArray} \cup {ArrayOf(q) : q \in ItemArrays}

RawSet ==
  {NullResponse, PrimitiveResponse}
  \cup {BareArray(q) : q \in ItemArrays}
  \cup {ObjectOf(inv, dat, res, rec) :
          inv \in Members, dat \in Members, res \in Members, rec \in ItemSet}

InitNormalize ==
  /\ now = StartTime
  /\ ticks = 0
  /\ reg = 1
  /\ data = EmptyData
  /\ rawData = NullDoc
  /\ lastFetch = 0
  /\ dataAt = 0
  /\ rawAt = 0
  /\ response \in RawSet
  /\ invoices = <<>>
  /\ tasks = <<>>
  /\ output = NoOutput
  /\ probe = [kind |-> "normalize", done |-> FALSE,
              result |-> [found |-> FALSE, invoices |-> <<>>]]

NormalizeResponse ==
  /\ probe.kind = "normalize"
  /\ ~probe.done
  /\ probe' = [probe EXCEPT !.done = TRUE, !.result = Normalize(response)]
  /\ UNCHANGED <<now, ticks, reg, cache, response, invoices, tasks, output>>

SpecNormalize == InitNormalize /\ [][NormalizeResponse]_vars

\* C11: a bare array normalizes to its elements in order; an object to the
\* elements of the first of its properties invoices, data, results that is
\* an array, in order; an object with none of them to the one-element
\* sequence holding the object itself.
C11_SameSequenceOfRecords ==
  (probe.kind = "normalize" /\ probe.done) =>
    LET got == probe.result.invoices
    IN  /\ response.shape = "array" =>
              probe.result.found /\ got = response.items
        /\ response.shape = "object" =>
              /\ probe.result.found
              /\ response.invoices.isArray => got = response.invoices.items
              /\ (~response.invoices.isArray /\ response.data.isArray) =>
                    got = response.data.items
              /\ (~response.invoices.isArray /\ ~response.data.isArray
                    /\ response.results.isArray) =>
                    got = response.results.items
              /\ (~response.invoices.isArray /\ ~response.data.isArray
                    /\ ~response.results.isArray) =>
                    got = <<response.self>>

\* an object whose invoices and data are different arrays has been
\* normalized to the two elements of invoices
C11_Witness ==
  /\ probe.kind = "normalize" /\ probe.done
  /\ response.shape = "object"
  /\ response.invoices.isArray /\ response.data.isArray
  /\ response.invoices.items # response.data.items
  /\ Len(response.invoices.items) = 2
  /\ response.invoices.items[1] # response.invoices.items[2]
  /\ probe.result.invoices = response.invoices.items

(***************************************************************************)
(* Properties of single records of a batch.                                *)
(***************************************************************************)
\* a record that is an object with none of the optional fields
Bare(rec) ==
  /\ ~rec.nul /\ rec.createdAt = 0
  /\ rec.origin = "" /\ rec.dshape = "none" /\ rec.destination = ""
  /\ rec.asset = "" /\ rec.ticker_hash = "" /\ rec.amount = <<>>

\* the pieces of the text "Unknown Chain (unknown)" as the template
\* literal of index.ts:535 puts them together
UnknownOrigin == <<"Unknown Chain", " (", "unknown", ")">>

\* C12: a record with none of the optional fields never raises, in its
\* callback or in a lookup, and is enriched to origin "Unknown Chain
\* (unknown)", amount "0.000000", amount_raw "0", without processing_error,
\* whatever the registry GETs of the other records of the batch come to.
C12_BareRecordEnriched ==
  \A t \in Tasks :
    Bare(invoices[t]) =>
      /\ tasks[t].pc \in {"start", "fulfilled"}
      /\ ~tasks[t].raised
      /\ tasks[t].pc = "fulfilled" =>
            /\ tasks[t].out.origin = UnknownOrigin
            /\ tasks[t].out.amount = <<"0", ".", "0", "0", "0", "0", "0", "0">>
            /\ tasks[t].out.amount_raw = <<"0">>
            /\ ~tasks[t].out.processing_error

\* a bare record stands enriched in the output of a call in which a lookup
\* of another record raised
C12_Witness ==
  /\ output.st = "returned"
  /\ \E t \in Tasks :
        /\ Bare(invoices[t])
        /\ output.formatted[t].origin = UnknownOrigin
        /\ ~output.formatted[t].processing_error
  /\ \E u \in Tasks : output.formatted[u].processing_error

\* the raw identifiers of record rec stand in the enriched record o: its
\* origin id, its destination ids, its asset fingerprint, its amount and
\* its intent id
DerivedFrom(o, rec) ==
  /\ o.origin[Len(o.origin) - 1] = OrUnknown(rec.origin)
  /\ Len(o.destinations) = Len(rec.dests)
  /\ \A k \in 1..Len(rec.dests) :
        o.destinations[k][Len(o.destinations[k]) - 1] = rec.dests[k]
  /\ o.asset[Len(o.asset) - 1] = OrUnknown(TickerHash(rec))
  /\ o.amount_raw = IF rec.amount = <<>> THEN <<"0">> ELSE rec.amount
  /\ o.intent_id = rec.intent_id

\* C13: when the call returns, the enriched records, the CSV rows and the
\* simplified entries are as many as the input records, and position i of
\* each carries the identifiers of input record i, whatever the order in
\* which the callbacks and the registry GETs completed.
C13_OutputInInputOrder ==
  output.st = "returned" =>
    /\ Len(output.formatted) = Len(invoices)
    /\ Len(output.csvRows) = Len(invoices)
    /\ Len(output.simplified) = Len(invoices)
    /\ \A i \in 1..Len(invoices) :
          /\ DerivedFrom(output.formatted[i], invoices[i])
          /\ output.csvRows[i][1] =
                (IF invoices[i].intent_id = "" THEN "N/A" ELSE invoices[i].intent_id)
          /\ output.csvRows[i][3][Len(output.csvRows[i][3]) - 1] =
                OrUnknown(invoices[i].origin)
          /\ output.csvRows[i][5][Len(output.csvRows[i][5]) - 1] =
                OrUnknown(TickerHash(invoices[i]))
          /\ output.simplified[i].intent_id = invoices[i].intent_id
          /\ output.simplified[i].origin[Len(output.simplified[i].origin) - 1] =
                OrUnknown(invoices[i].origin)
          /\ output.simplified[i].asset[Len(output.simplified[i].asset) - 1] =
                OrUnknown(TickerHash(invoices[i]))

\* a call has returned two records of which the second, which awaits
\* nothing, was enriched before the first, whose lookups refreshed the
\* registry
C13_Witness ==
  /\ output.st = "returned"
  /\ Len(invoices) = 2
  /\ invoices[1].origin # "" /\ TickerHash(invoices[1]) # ""
  /\ Bare(invoices[2])
  /\ lastFetch # 0
  /\ output.formatted[1].intent_id = "i1"
  /\ output.csvRows[2][1] = "N/A"

(***************************************************************************)
(* Properties of the whole call.                                           *)
(***************************************************************************)
\* C14: once the call has settled on a response that is null, a primitive
\* or an empty array, it has returned the annotated empty result
\* {invoices: [], total: 0, error: ...}; it has neither thrown nor
\* returned the ordinary CSV-and-JSON text.
C14_EmptyResponseAnnotated ==
  ( /\ \/ response.shape \in {"null", "primitive"}
       \/ response.shape = "array" /\ response.items = <<>>
    /\ output.st \notin {"awaiting", "pending"} )
  => output.st = "no_data"

(***************************************************************************)
(* Properties of the registry cache, step by step.                         *)
(***************************************************************************)
\* frame i of task t is a GET in flight that this step brings back
Settles(t, i) ==
  /\ t \in 1..Len(tasks) /\ i \in 1..Len(tasks[t].frames)
  /\ tasks[t].frames[i].st = "fetching"
  /\ t \in 1..Len(tasks') /\ i \in 1..Len(tasks'[t].frames)
  /\ tasks'[t].frames[i].st # "fetching"

\* C15: a step in which a GET comes back failed (network error, non-2xx
\* status, invalid JSON, or a document of another shape) leaves data,
\* rawData and lastFetch as they were, and the lookup returns what the
\* snapshot held before the step (the empty one when there was none).
C15_FailedRefreshKeepsCache ==
  [][\A t \in 1..MaxBatch, i \in 1..MaxBatch :
       (Settles(t, i) /\ tasks'[t].frames[i].failed) =>
         /\ data' = data /\ rawData' = rawData /\ lastFetch' = lastFetch
         /\ LET f == tasks'[t].frames[i]
                prior == IF rawData.isNull THEN EmptyDoc ELSE rawData
            IN  /\ f.st = "done"
                /\ f.fn = "chain" => f.name = ChainNameIn(data, f.arg)
                /\ f.fn = "token" => f.name = TokenNameIn(data, f.arg)
                /\ f.fn = "asset" => f.info = GetAssetInfo(prior, f.arg)]_vars

\* task t enters a lookup stage in this step: its frames are new
Issues(t) ==
  /\ t \in 1..Len(tasks) /\ t \in 1..Len(tasks')
  /\ tasks'[t].pc # tasks[t].pc
  /\ tasks'[t].pc \in LookupStages

\* C16: a lookup that starts and is served from cache without a GET reads
\* a snapshot that a successful fetch made at lastFetch produced: the name
\* snapshot for a name lookup, the raw document for getAssetInfo.
C16_ServedSnapshotFetchedAtLastFetch ==
  [][\A t \in 1..MaxBatch :
       Issues(t) =>
         \A i \in 1..Len(tasks'[t].frames) :
           LET f == tasks'[t].frames[i]
           IN  ~f.attempted =>
                 IF f.fn = "asset" THEN rawAt # 0 /\ rawAt = lastFetch
                 ELSE dataAt # 0 /\ dataAt = lastFetch]_vars

(***************************************************************************)
(* Ties between decimals values in getAssetInfo.                            *)
(***************************************************************************)
\* the matches of the chosen partition whose decimals value no other value
\* of the partition occurs more often than
MostCommon ==
  {i \in Chosen : \A j \in Chosen :
     Occurrences(probe.entries[j].asset.decimals)
       <= Occurrences(probe.entries[i].asset.decimals)}

\* C17: the decimals returned are those of the match that comes first, in
\* the hub-then-chains traversal, among the matches carrying a most common
\* value; with several most common values that is the value encountered
\* first.
C17_TieGoesToFirstEncountered ==
  (probe.kind = "asset" /\ probe.done /\ Matching # {}) =>
    \E i \in MostCommon :
      /\ \A j \in MostCommon \ {i} : Before(i, j)
      /\ probe.result.decimals = probe.entries[i].asset.decimals

(***************************************************************************)
(* Properties of the enriched fields.                                      *)
(***************************************************************************)
\* C18: a record without createdAt is enriched with open_time_seconds 0,
\* whether or not the clock moved between the two readings of its
\* callback.
C18_OpenTimeZeroWithoutCreatedAt ==
  \A t \in Tasks :
    (tasks[t].pc = "fulfilled" /\ ~invoices[t].nul /\ invoices[t].createdAt = 0)
      => tasks[t].out.open_time_seconds = 0

\* the record has an amount that BigInt does not accept
Malformed(rec) == ~rec.nul /\ rec.amount # <<>> /\ ~ParseBigInt(rec.amount).ok

\* C19: a record with a malformed amount, none of whose lookups raised, is
\* enriched without processing_error and with amount "0.000000".
C19_MalformedAmountFallsBack ==
  \A t \in Tasks :
    (tasks[t].pc = "fulfilled" /\ Malformed(invoices[t]) /\ ~tasks[t].raised)
      => /\ ~tasks[t].out.processing_error
         /\ tasks[t].out.amount = <<"0", ".", "0", "0", "0", "0", "0", "0">>

\* C20: the records stay as the response delivered them, and every
\* enriched record, on the normal path and on the processing_error path,
\* carries the fields the enricher does not write (intent_id, ticker_hash)
\* with the values of its raw record, and the raw amount string as
\* amount_raw.
C20_EnrichmentAdditive ==
  /\ (response.shape = "array" /\ output.st # "awaiting") => invoices = response.items
  /\ \A t \in Tasks :
        tasks[t].pc = "fulfilled" =>
          /\ tasks[t].out.intent_id = invoices[t].intent_id
          /\ tasks[t].out.ticker_hash = invoices[t].ticker_hash
          /\ invoices[t].amount # <<>> => tasks[t].out.amount_raw = invoices[t].amount

\* a call has returned one record enriched on the normal path and one on
\* the processing_error path, each with its unwritten fields
C20_Witness ==
  /\ output.st = "returned"
  /\ \E t \in Tasks :
        /\ output.formatted[t].processing_error
        /\ invoices[t].ticker_hash = "T1"
        /\ output.formatted[t].ticker_hash = "T1"
  /\ \E u \in Tasks :
        /\ ~output.formatted[u].processing_error
        /\ invoices[u].intent_id = "i1"
        /\ output.formatted[u].intent_id = "i1"
        /\ output.formatted[u].amount_raw = <<"1", "0", "0", "0", "0", "0", "0">>

(***************************************************************************)
(* Properties of the refresh itself.                                       *)
(***************************************************************************)
\* the assets version v of the registry lists, in the hub and in the chains
RegAssets(v) ==
  LET doc == Registry(v)
  IN  {doc.hub[i] : i \in 1..Len(doc.hub)}
      \cup UNION {{doc.chains[c].assets[i] : i \in 1..Len(doc.chains[c].assets)} :
                   c \in 1..Len(doc.chains)}

\* snap is the constructor's empty snapshot, or it holds every enumerated
\* chain and exactly the fingerprints its registry version lists
Complete(snap) ==
  \/ snap = EmptyData
  \/ /\ snap.src \in 1..LastVersion
     /\ DOMAIN snap.chains = DOMAIN chainNames
     /\ DOMAIN snap.tokens = {a.tickerHash : a \in RegAssets(snap.src)}
     /\ \A th \in DOMAIN snap.tokens :
           \E a \in RegAssets(snap.src) : a.tickerHash = th /\ a.symbol = snap.tokens[th]

\* the answer a complete snapshot of version v gives to a name lookup
AnswerOf(fn, arg, v) ==
  IF fn = "chain"
  THEN IF v # 0 /\ arg \in DOMAIN chainNames
       THEN <<chainNames[arg]>> ELSE <<"Unknown Chain (", arg, ")">>
  ELSE IF v # 0 /\ \E a \in RegAssets(v) : a.tickerHash = arg
       THEN <<(CHOOSE a \in RegAssets(v) : a.tickerHash = arg).symbol>>
       ELSE <<"Unknown Token (", arg, ")">>

\* C21: after every step the cached name snapshot is a complete one, every
\* name lookup that has returned was answered by a complete snapshot, and
\* the cached snapshot differs from the one before the step only when the
\* step is the return of a registry GET of a name lookup, which replaces it
\* by the snapshot built from the document of that GET.
C21_SnapshotReplacedWhole ==
  [][/\ Complete(data')
     /\ \A t \in 1..Len(tasks') : \A i \in 1..Len(tasks'[t].frames) :
          LET f == tasks'[t].frames[i]
          IN  (f.fn # "asset" /\ f.st = "done") => f.name = AnswerOf(f.fn, f.arg, f.src)
     /\ data' # data =>
          \E t \in 1..MaxBatch, i \in 1..MaxBatch :
            /\ Settles(t, i)
            /\ tasks[t].frames[i].fn # "asset"
            /\ dataAt' = tasks[t].frames[i].t0
            /\ data'.src = reg]_vars

\* the snapshot has been replaced by that of registry version 2 while a
\* lookup of the same stage had been answered from version 1
C21_Witness ==
  /\ data.src = 2
  /\ \E t \in Tasks : \E i \in 1..Len(tasks[t].frames), j \in 1..Len(tasks[t].frames) :
        /\ tasks[t].frames[i].st = "done" /\ tasks[t].frames[i].src = 1
        /\ tasks[t].frames[j].st = "done" /\ tasks[t].frames[j].src = 2

(***************************************************************************)
(* Progress of a call.  The event loop runs every continuation that is     *)
(* ready: the handler once the upstream response is there, each callback   *)
(* up to its first await, each callback whose awaited lookups have all     *)
(* settled, and the continuation of Promise.all.  The return of a registry *)
(* GET is the network's doing: `fetch(url)` is called without a signal or  *)
(* a timer (chainData.ts:50, 276), so nothing in the program makes it      *)
(* happen.                                                                 *)
(***************************************************************************)
\* calls on one record
InitLive == Init /\ response.shape = "array" /\ Len(response.items) = 1

\* callback t has not run yet and every callback before it has
BeginReady(t) ==
  /\ t <= Len(tasks)
  /\ tasks[t].pc = "start"
  /\ \A u \in 1..(t - 1) : tasks[u].pc # "start"

\* every lookup callback t awaits has settled
ResumeReady(t) ==
  /\ t <= Len(tasks)
  /\ Begun
  /\ tasks[t].pc \in LookupStages
  /\ \A i \in 1..Len(tasks[t].frames) : tasks[t].frames[i].st # "fetching"

\* Weak fairness of each continuation.  For Begin and Resume it is written
\* out with the condition under which the step is possible, BeginReady and
\* ResumeReady, which are the guards of the two actions.
Scheduling ==
  /\ WF_vars(Receive)
  /\ WF_vars(Finish)
  /\ \A t \in 1..MaxBatch :
       []<>(~BeginReady(t)) \/ []<><<t <= Len(tasks) /\ Begin(t)>>_vars
  /\ \A t \in 1..MaxBatch :
       []<>(~ResumeReady(t)) \/ []<><<t <= Len(tasks) /\ Resume(t)>>_vars

SpecLive == InitLive /\ [][Next]_vars /\ Scheduling

\* lookup i of callback t has its registry GET out
InFlight(t, i) ==
  /\ t <= Len(tasks) /\ i <= Len(tasks[t].frames)
  /\ tasks[t].frames[i].st = "fetching"

\* C22: every lookup whose registry GET is out eventually returns, whether
\* or not the registry answers.
C22_LookupsEventuallyReturn ==
  \A t \in 1..MaxBatch, i \in 1..MaxBatch : InFlight(t, i) ~> ~InFlight(t, i)

(***************************************************************************)
(* Registry GETs per lookup.                                               *)
(***************************************************************************)
\* task t awaits the same lookups before and after the step
SameStage(t) ==
  /\ t <= Len(tasks) /\ t <= Len(tasks')
  /\ tasks'[t].pc = tasks[t].pc
  /\ Len(tasks'[t].frames) = Len(tasks[t].frames)

\* C23: a lookup puts a GET out only when it starts, and only if it then
\* finds now - lastFetch at least CACHE_DURATION (or, for getAssetInfo, no
\* raw document); the step that brings its GET back, failed or not,
\* settles the lookup, and a settled lookup never has a GET out again.
C23_OneGetPerLookup ==
  [][\A t \in 1..MaxBatch :
       /\ Issues(t) =>
            \A i \in 1..Len(tasks'[t].frames) :
              LET f == tasks'[t].frames[i]
              IN  /\ f.st = "fetching" <=> f.attempted
                  /\ f.attempted =>
                        \/ f.t0 - lastFetch >= CACHE_DURATION
                        \/ f.fn = "asset" /\ rawData.isNull
       /\ SameStage(t) =>
            \A i \in 1..Len(tasks[t].frames) :
              /\ tasks'[t].frames[i].attempted = tasks[t].frames[i].attempted
              /\ ~InFlight(t, i) => tasks'[t].frames[i].st # "fetching"
              /\ (InFlight(t, i) /\ tasks'[t].frames[i] # tasks[t].frames[i])
                    => tasks'[t].frames[i].st # "fetching"]_vars

\* getAssetInfo's refresh failed and it answered null from the empty
\* document; the later lookup of the same callback, finding lastFetch
\* still 0, has put the next GET out
C23_Witness ==
  \E t \in Tasks :
    /\ tasks[t].absent
    /\ lastFetch = 0 /\ rawData.isNull
    /\ tasks[t].pc = "tokenName"
    /\ tasks[t].frames[1].st = "fetching"
    /\ tasks[t].frames[1].attempted
====
